---- MODULE Spec2Model ----
(***************************************************************************)
(* A model of the falling-block engine: the shape geometry (shapes.ts),    *)
(* the grid helpers and the RNG scaling (utils.ts), the action reducer     *)
(* (states.ts) and the merged action stream folded over the state by       *)
(* scan(reduceState, INITIAL_STATE) (main.ts, observables.ts).             *)
(*                                                                         *)
(* Representation.  A Shape is a record with the fields of the source; its *)
(* `type` field holds the name of the ShapeType and ShapeTypeOf(name)      *)
(* gives the matrix.  The id `shape${n}` is held as the number n.  null    *)
(* is the record Null.  A random number v in [-1, 1] is held exactly, as   *)
(* the fraction (v + 1) / 2 = num / den; RNG.scale(hash) is hash / (m-1).  *)
(* The source computes in doubles: m - 1 is prime, so for a hash strictly  *)
(* between 0 and m - 1 the value hash * n / (m - 1) is at least 1 / (m-1)  *)
(* away from every integer and the double result has the same floor.       *)
(* An angle is 0, 90, 180, 270, or one of the JavaScript values undefined  *)
(* and NaN, which the code produces when the angle index is out of range.  *)
(* A thrown TypeError ends the stream: it sets `halted`.                   *)
(***************************************************************************)
EXTENDS Integers, Sequences, FiniteSets, TLC

VARIABLES
    state,   \* the accumulator of scan(reduceState, INITIAL_STATE)
    halted,  \* TRUE once an action has thrown: the stream has errored
    last,    \* the action applied last (history, for reading traces)
    replay,  \* the place in the recorded streams, or `free`
    steps    \* number of actions applied after the recorded stream

vars == <<state, halted, last, replay, steps>>

----------------------------------------------------------------------------
(* types.ts: constants *)

CANVAS_WIDTH == 200
CANVAS_HEIGHT == 400
PREVIEW_WIDTH == 160
GRID_WIDTH == 10
GRID_HEIGHT == 20
BlockWIDTH == CANVAS_WIDTH \div GRID_WIDTH
BlockHEIGHT == CANVAS_HEIGHT \div GRID_HEIGHT
SPAWN_CANVAS_X == CANVAS_WIDTH \div 2 - 2 * BlockWIDTH
SPAWN_CANVAS_Y == 0
SPAWN_PREVIEW_X == PREVIEW_WIDTH \div 2 - 2 * BlockWIDTH
SPAWN_PREVIEW_Y == 0

Null == [null |-> TRUE]

\* JavaScript's undefined and NaN, as angles
undefined == -1
NaN == -2

----------------------------------------------------------------------------
(* utils.ts: RNG *)

\* RNG.m - 1
mMinus1 == 2147483647

\* RNG.scale(hash) = 2 * hash / (m - 1) - 1, held as (v + 1) / 2
scale(hash) == [num |-> hash, den |-> mMinus1]

\* the literal 0 of createShape([0, 0], 1): (0 + 1) / 2
Zero == [num |-> 1, den |-> 2]

\* the least integer >= k * den / n, without leaving 32 bits
CeilMulDiv(k, den, n) ==
    k * (den \div n) + ((k * (den % n)) + n - 1) \div n

\* Math.floor(num / den * n), for 0 <= num <= den
FloorMulDiv(num, n, den) ==
    CHOOSE k \in 0..n :
        /\ num >= CeilMulDiv(k, den, n)
        /\ (k < n => num < CeilMulDiv(k + 1, den, n))

\* Math.floor((hash + 1) / 2 * (to - from + 1) + from)
scaleToRange(v, from, to) == FloorMulDiv(v.num, to - from + 1, v.den) + from

----------------------------------------------------------------------------
(* utils.ts: matrices and grids *)

\* rotatedMatrix[i][j] = matrix[n - j - 1][i], indices from 0
rotateMatrix(matrix) ==
    LET n == Len(matrix)
    IN  [i \in 1..n |-> [j \in 1..Len(matrix[i]) |-> matrix[n - j + 1][i]]]

RECURSIVE rotateMatrixTimes(_, _)
rotateMatrixTimes(k, matrix) ==
    IF k = 0 THEN matrix ELSE rotateMatrixTimes(k - 1, rotateMatrix(matrix))

\* rotateMatrixNTimes that counts the quarter turns modulo 2
rotateMatrixNTimesModuloTwo(times, matrix) ==
    IF times = NaN THEN matrix ELSE rotateMatrixTimes(times % 2, matrix)

\* Array.from({ length: times % 4 }).reduce(rotateMatrix, matrix); a NaN
\* length is an empty array
rotateMatrixNTimes(times, matrix) ==
    IF times = NaN THEN matrix ELSE rotateMatrixTimes(times % 4, matrix)

\* concat(array.slice(0, index), [newItem], array.slice(index + 1)),
\* index from 0
replace(array, newItem, index) ==
    SubSeq(array, 1, index) \o <<newItem>> \o SubSeq(array, index + 2, Len(array))

emptyGrid(width, height) == [r \in 1..height |-> [c \in 1..width |-> 0]]

\* positions.reduce((accGrid, {x, y}) => replace(accGrid, replace(accGrid[y], 1, x), y), oldGrid),
\* indices from 0: the fold, cell by cell. Row y has a 1 at the x of each of
\* its positions and its old cell elsewhere; replace() at the index
\* row.length appends the cell
updateGrid(oldGrid, positions) ==
    [r \in 1..Len(oldGrid) |->
        LET xs == { positions[i].x : i \in { j \in 1..Len(positions) : positions[j].y = r - 1 } }
            rowToUpdate == oldGrid[r]
            length == IF Len(rowToUpdate) \in xs THEN Len(rowToUpdate) + 1
                      ELSE Len(rowToUpdate)
        IN  [c \in 1..length |-> IF c - 1 \in xs THEN 1 ELSE rowToUpdate[c]]]

\* accGrid[y] is undefined for a row outside the grid, and replace() then
\* reads a property of undefined: a TypeError
updateGridThrows(height, positions) ==
    \E i \in 1..Len(positions) : positions[i].y >= height \/ positions[i].y < 0

constructGrid(width, height, positions) ==
    updateGrid(emptyGrid(width, height), positions)

\* the indices (from 0) of the full rows, in row order
findFullRowsOfGrid(grid) ==
    LET isFull(r) == \A c \in 1..Len(grid[r]) : grid[r][c] = 1
        RECURSIVE acc(_)
        acc(r) == IF r > Len(grid) THEN <<>>
                  ELSE (IF isFull(r) THEN <<r - 1>> ELSE <<>>) \o acc(r + 1)
    IN  acc(1)

RECURSIVE flatten(_)
flatten(seqs) == IF seqs = <<>> THEN <<>> ELSE Head(seqs) \o flatten(Tail(seqs))

includes(seq, x) == \E i \in 1..Len(seq) : seq[i] = x

----------------------------------------------------------------------------
(* shapes.ts: the catalog *)

ALL_SHAPE_TYPES == <<
    [name |-> "O", color |-> "green",
     matrix |-> << <<0, 0, 0, 0>>, <<0, 1, 1, 0>>, <<0, 1, 1, 0>>, <<0, 0, 0, 0>> >>],
    [name |-> "L", color |-> "blue",
     matrix |-> << <<1, 0, 0>>, <<1, 1, 1>>, <<0, 0, 0>> >>],
    [name |-> "J", color |-> "pink",
     matrix |-> << <<0, 0, 1>>, <<1, 1, 1>>, <<0, 0, 0>> >>],
    [name |-> "S", color |-> "red",
     matrix |-> << <<0, 0, 0>>, <<0, 1, 1>>, <<1, 1, 0>> >>],
    [name |-> "Z", color |-> "purple",
     matrix |-> << <<0, 0, 0>>, <<1, 1, 0>>, <<0, 1, 1>> >>],
    [name |-> "I", color |-> "orange",
     matrix |-> << <<0, 0, 1, 0>>, <<0, 0, 1, 0>>, <<0, 0, 1, 0>>, <<0, 0, 1, 0>> >>],
    [name |-> "T", color |-> "yellow",
     matrix |-> << <<0, 0, 0>>, <<1, 1, 1>>, <<0, 1, 0>> >>] >>

ALL_SHAPE_ANGLES == <<0, 90, 180, 270>>

\* the type of createObstacle
ObstacleType == [name |-> "Obstacle", color |-> "grey", matrix |-> << <<1>> >>]

\* shape.type, from the name the model keeps in the shape
ShapeTypeOf(name) ==
    IF name = "Obstacle" THEN ObstacleType
    ELSE LET i == CHOOSE k \in 1..Len(ALL_SHAPE_TYPES) : ALL_SHAPE_TYPES[k].name = name
         IN  ALL_SHAPE_TYPES[i]

----------------------------------------------------------------------------
(* shapes.ts: geometry *)

renderBlocksFromShape(shape) ==
    LET matrix == ShapeTypeOf(shape.type).matrix
        rotateCount == IF shape.angle \in {undefined, NaN} THEN NaN
                       ELSE (shape.angle \div 90) % 4
        rotatedMatrix == rotateMatrixNTimes(rotateCount, matrix)
        cell(rowIndex, colIndex) ==
            IF rotatedMatrix[rowIndex + 1][colIndex + 1] = 1
            THEN << [x |-> shape.x + colIndex * BlockWIDTH,
                     y |-> shape.y + rowIndex * BlockHEIGHT,
                     width |-> BlockWIDTH,
                     height |-> BlockHEIGHT] >>
            ELSE <<>>
        row(rowIndex) ==
            flatten([c \in 1..Len(rotatedMatrix[rowIndex + 1]) |-> cell(rowIndex, c - 1)])
    IN  flatten([r \in 1..Len(rotatedMatrix) |-> row(r - 1)])

\* ALL_SHAPE_TYPES[index] is undefined for index 7, and randomType.matrix
\* then throws a TypeError
createShapeThrows(randomPair) ==
    scaleToRange(randomPair[1], 0, Len(ALL_SHAPE_TYPES) - 1) >= Len(ALL_SHAPE_TYPES)

createShape(randomPair, id) ==
    LET randomType == ALL_SHAPE_TYPES[
            scaleToRange(randomPair[1], 0, Len(ALL_SHAPE_TYPES) - 1) + 1]
        angleIndex == scaleToRange(randomPair[2], 0, Len(ALL_SHAPE_ANGLES) - 1)
        randomAngle == IF angleIndex < Len(ALL_SHAPE_ANGLES)
                       THEN ALL_SHAPE_ANGLES[angleIndex + 1] ELSE undefined
    IN  [id |-> id,
         x |-> 0,
         y |-> 0,
         angle |-> randomAngle,
         type |-> randomType.name,
         blocks |-> <<>>,
         width |-> BlockWIDTH * Len(randomType.matrix[1]),
         height |-> BlockHEIGHT * Len(randomType.matrix),
         fix |-> FALSE]

createObstacle(id, x, y) ==
    [id |-> id,
     x |-> x,
     y |-> y,
     angle |-> 0,
     type |-> ObstacleType.name,
     blocks |-> <<>>,
     width |-> BlockWIDTH,
     height |-> BlockHEIGHT,
     fix |-> TRUE]

\* s.fixedShapes.flatMap(shape => shape.blocks)
allBlocksOf(s) == flatten([i \in 1..Len(s.fixedShapes) |-> s.fixedShapes[i].blocks])

canUpdate(allBlocks, newBlocks) ==
    LET insideGrid ==
            \A i \in 1..Len(newBlocks) :
                /\ newBlocks[i].x >= 0
                /\ newBlocks[i].x < CANVAS_WIDTH
                /\ newBlocks[i].y < CANVAS_HEIGHT
        noOverlapBlocks ==
            ~ \E i \in 1..Len(newBlocks) : \E j \in 1..Len(allBlocks) :
                /\ newBlocks[i].x = allBlocks[j].x
                /\ newBlocks[i].y = allBlocks[j].y
    IN  noOverlapBlocks /\ insideGrid

isFix(allBlocks, newBlocks) ==
    LET hasCollisions ==
            \E i \in 1..Len(newBlocks) : \E j \in 1..Len(allBlocks) :
                /\ newBlocks[i].x = allBlocks[j].x
                /\ newBlocks[i].y = allBlocks[j].y - BlockHEIGHT
        hitGround ==
            \E i \in 1..Len(newBlocks) : newBlocks[i].y = CANVAS_HEIGHT - BlockHEIGHT
    IN  hasCollisions \/ hitGround

\* updateShape with the rejection branch returning the candidate
updateShapeReturnsCandidate(s, newShape) ==
    IF newShape.fix THEN s.currentShape
    ELSE LET allBlocks == allBlocksOf(s)
             newBlocks == renderBlocksFromShape(newShape)
         IN  IF canUpdate(allBlocks, newBlocks)
             THEN [newShape EXCEPT !.blocks = newBlocks,
                                   !.fix = isFix(allBlocks, newBlocks)]
             ELSE newShape

updateShape(s, newShape) ==
    IF newShape.fix THEN s.currentShape
    ELSE LET allBlocks == allBlocksOf(s)
             newBlocks == renderBlocksFromShape(newShape)
         IN  IF canUpdate(allBlocks, newBlocks)
             THEN [newShape EXCEPT !.blocks = newBlocks,
                                   !.fix = isFix(allBlocks, newBlocks)]
             ELSE s.currentShape

\* updateStateWithNewShape that puts the fixed shape first in fixedShapes
updateStatePrependsFixedShape(s, newShape) ==
    LET updatedShape == updateShape(s, newShape)
    IN  IF s.gameEnd \/ updatedShape = Null THEN s
        ELSE IF updatedShape.fix
             THEN [s EXCEPT !.currentShape = Null,
                            !.fixedShapes = <<updatedShape>> \o s.fixedShapes]
             ELSE [s EXCEPT !.currentShape = updatedShape]

\* updateStateWithNewShape without the test of gameEnd
updateStateEvenWhenEnded(s, newShape) ==
    LET updatedShape == updateShape(s, newShape)
    IN  IF updatedShape = Null THEN s
        ELSE IF updatedShape.fix
             THEN [s EXCEPT !.currentShape = Null,
                            !.fixedShapes = Append(s.fixedShapes, updatedShape)]
             ELSE [s EXCEPT !.currentShape = updatedShape]

updateStateWithNewShape(s, newShape) ==
    LET updatedShape == updateShape(s, newShape)
    IN  IF s.gameEnd \/ updatedShape = Null THEN s
        ELSE IF updatedShape.fix
             THEN [s EXCEPT !.currentShape = Null,
                            !.fixedShapes = Append(s.fixedShapes, updatedShape)]
             ELSE [s EXCEPT !.currentShape = updatedShape]

\* blocks.reduce(Math.min, Infinity) and blocks.reduce(Math.max, -Infinity):
\* with no blocks the comparison with Infinity is false
kickShapeLeftWall(shape) ==
    LET blocks == shape.blocks
        offset == - shape.x
    IN  IF /\ blocks # <<>>
           /\ \E i \in 1..Len(blocks) : blocks[i].x <= BlockWIDTH
        THEN [shape EXCEPT !.x = shape.x + offset]
        ELSE shape

kickShapeRightWall(shape) ==
    LET blocks == shape.blocks
        offset == CANVAS_WIDTH - (shape.x + shape.width)
    IN  IF /\ blocks # <<>>
           /\ \E i \in 1..Len(blocks) : blocks[i].x >= CANVAS_WIDTH - 2 * BlockWIDTH
        THEN [shape EXCEPT !.x = shape.x + offset]
        ELSE shape

\* rotateKickShape that kicks nothing
rotateWithoutKick(shape) == shape

rotateKickShape(shape) == kickShapeRightWall(kickShapeLeftWall(shape))

----------------------------------------------------------------------------
(* states.ts: the initial state *)

initialShape ==
    [createShape(<<Zero, Zero>>, 1) EXCEPT !.x = SPAWN_PREVIEW_X, !.y = SPAWN_PREVIEW_Y]

INITIAL_STATE ==
    [gameEnd |-> FALSE,
     currentShape |-> Null,
     nextShape |-> initialShape,
     fixedShapes |-> <<>>,
     stats |-> [level |-> 1, highScore |-> 0, score |-> 0],
     dropRate |-> BlockHEIGHT,
     obstacles |-> <<>>,
     levelUp |-> FALSE]

----------------------------------------------------------------------------
(* states.ts: the actions, each a function State -> State *)

getGridPositionsFromState(s) ==
    LET blocks == allBlocksOf(s)
    IN  [i \in 1..Len(blocks) |->
            [x |-> blocks[i].x \div BlockWIDTH, y |-> blocks[i].y \div BlockHEIGHT]]

AddShapeActionThrows(randomPair, s) == createShapeThrows(randomPair)

AddShapeAction(randomPair, s) ==
    LET newShape == createShape(randomPair,
                                Len(s.fixedShapes) - Len(s.obstacles) + 2)
    IN  [s EXCEPT
            !.currentShape = [s.nextShape EXCEPT !.x = SPAWN_CANVAS_X,
                                                 !.y = SPAWN_CANVAS_Y],
            !.nextShape = [newShape EXCEPT !.x = SPAWN_PREVIEW_X,
                                           !.y = SPAWN_PREVIEW_Y]]

\* the candidate of MoveAction.apply
moveCandidate(movement, oldShape) ==
    [oldShape EXCEPT !.x = oldShape.x + movement.deltaX,
                     !.y = oldShape.y + movement.deltaY]

\* MoveAction that moves nextShape when there is no currentShape
MoveActionFallsBackToNextShape(movement, s) ==
    IF s.currentShape = Null
    THEN updateStateWithNewShape(s, moveCandidate(movement, s.nextShape))
    ELSE updateStateWithNewShape(s, moveCandidate(movement, s.currentShape))

MoveAction(movement, s) ==
    IF s.currentShape = Null THEN s
    ELSE updateStateWithNewShape(s, moveCandidate(movement, s.currentShape))

\* (angle + 90) % 360; undefined + 90 and NaN + 90 are NaN
nextAngle(angle) ==
    IF angle \in {undefined, NaN} THEN NaN ELSE (angle + 90) % 360

\* the candidate of RotateAction.apply
rotateCandidate(oldShape) ==
    rotateKickShape([oldShape EXCEPT !.angle = nextAngle(oldShape.angle)])

RotateAction(s) ==
    IF s.currentShape = Null THEN s
    ELSE updateStateWithNewShape(s, rotateCandidate(s.currentShape))

\* findFullRowsOfGrid(currentGrid).map(index => index * Block.HEIGHT)
fullRowsYCoordinates(s) ==
    LET currentGrid == constructGrid(GRID_WIDTH, GRID_HEIGHT,
                                     getGridPositionsFromState(s))
        rows == findFullRowsOfGrid(currentGrid)
    IN  [i \in 1..Len(rows) |-> rows[i] * BlockHEIGHT]

ScoreActionThrows(s) == updateGridThrows(GRID_HEIGHT, getGridPositionsFromState(s))

\* the blocks of one fixed shape after the row clear
adjustedBlocks(blocks, fullRows) ==
    LET kept == SelectSeq(blocks, LAMBDA b : ~ includes(fullRows, b.y))
        countClearRowsBelowBlock(b) ==
            Len(SelectSeq(fullRows, LAMBDA clearRow : clearRow > b.y))
    IN  [i \in 1..Len(kept) |->
            [kept[i] EXCEPT !.y = kept[i].y
                                  + kept[i].height * countClearRowsBelowBlock(kept[i])]]

\* ScoreAction with a score that counts the rows and not the level
ScoreActionIgnoresLevel(s) ==
    LET fullRows == fullRowsYCoordinates(s)
        newFixedShapes ==
            [i \in 1..Len(s.fixedShapes) |->
                [s.fixedShapes[i] EXCEPT
                    !.blocks = adjustedBlocks(s.fixedShapes[i].blocks, fullRows)]]
        newScore == s.stats.score + Len(fullRows)
    IN  [s EXCEPT !.stats = [s.stats EXCEPT !.score = newScore],
                  !.fixedShapes = newFixedShapes]

\* ScoreAction that clears one full row at a time
ScoreActionClearsOneRow(s) ==
    LET found == fullRowsYCoordinates(s)
        fullRows == IF found = <<>> THEN found ELSE <<found[1]>>
        newFixedShapes ==
            [i \in 1..Len(s.fixedShapes) |->
                [s.fixedShapes[i] EXCEPT
                    !.blocks = adjustedBlocks(s.fixedShapes[i].blocks, fullRows)]]
        newScore == s.stats.score + Len(fullRows) * s.stats.level
    IN  [s EXCEPT !.stats = [s.stats EXCEPT !.score = newScore],
                  !.fixedShapes = newFixedShapes]

ScoreAction(s) ==
    LET fullRows == fullRowsYCoordinates(s)
        newFixedShapes ==
            [i \in 1..Len(s.fixedShapes) |->
                [s.fixedShapes[i] EXCEPT
                    !.blocks = adjustedBlocks(s.fixedShapes[i].blocks, fullRows)]]
        newScore == s.stats.score + Len(fullRows) * s.stats.level
    IN  [s EXCEPT !.stats = [s.stats EXCEPT !.score = newScore],
                  !.fixedShapes = newFixedShapes]

\* EndGameAction with blocks.some in place of blocks.every
EndGameActionSome(s) ==
    IF s.currentShape = Null THEN s
    ELSE LET blocks == s.currentShape.blocks
             gameEnd == \E i \in 1..Len(blocks) : blocks[i].y - blocks[i].height < 0
         IN  [s EXCEPT !.gameEnd = gameEnd]

EndGameAction(s) ==
    IF s.currentShape = Null THEN s
    ELSE LET blocks == s.currentShape.blocks
             gameEnd == \A i \in 1..Len(blocks) : blocks[i].y - blocks[i].height < 0
         IN  [s EXCEPT !.gameEnd = gameEnd]

\* RestartGameAction that carries the high score over unchanged
RestartGameKeepsHighScore(s) ==
    IF s.gameEnd
    THEN [INITIAL_STATE EXCEPT
            !.stats = [score |-> 0, level |-> 1, highScore |-> s.stats.highScore],
            !.gameEnd = FALSE]
    ELSE s

\* RestartGameAction that takes the score of the game that ended as the
\* high score
RestartGameTakesLastScore(s) ==
    IF s.gameEnd
    THEN [INITIAL_STATE EXCEPT
            !.stats = [score |-> 0, level |-> 1, highScore |-> s.stats.score],
            !.gameEnd = FALSE]
    ELSE s

RestartGameAction(s) ==
    IF s.gameEnd
    THEN [INITIAL_STATE EXCEPT
            !.stats = [score |-> 0,
                       level |-> 1,
                       highScore |-> IF s.stats.highScore > s.stats.score
                                     THEN s.stats.highScore ELSE s.stats.score],
            !.gameEnd = FALSE]
    ELSE s

\* CheckLevelUpAction with a strict comparison
CheckLevelUpStrict(s) ==
    LET isLevelUp == s.stats.score > s.stats.level * 10
    IN  [s EXCEPT !.levelUp = isLevelUp]

CheckLevelUpAction(s) ==
    LET isLevelUp == s.stats.score >= s.stats.level * 10
    IN  [s EXCEPT !.levelUp = isLevelUp]

\* addObstacle that drops the obstacles of the previous levels
addObstacleOnly(randomPair, s) ==
    LET scaleX == scaleToRange(randomPair[1], 0, GRID_WIDTH - 1)
        scaleY == scaleToRange(randomPair[2], GRID_HEIGHT \div 2, GRID_HEIGHT - 1)
        newObstacle == createObstacle(- (Len(s.obstacles) + 1),
                                      scaleX * BlockWIDTH, scaleY * BlockHEIGHT)
        newObstaclesArray ==
            << [newObstacle EXCEPT !.blocks = renderBlocksFromShape(newObstacle)] >>
    IN  [INITIAL_STATE EXCEPT
            !.stats = [s.stats EXCEPT !.level = s.stats.level + 1],
            !.fixedShapes = newObstaclesArray,
            !.obstacles = newObstaclesArray]

addObstacle(randomPair, s) ==
    LET level == s.stats.level
        scaleX == scaleToRange(randomPair[1], 0, GRID_WIDTH - 1)
        scaleY == scaleToRange(randomPair[2], GRID_HEIGHT \div 2, GRID_HEIGHT - 1)
        actualX == scaleX * BlockWIDTH
        actualY == scaleY * BlockHEIGHT
        newObstacle == createObstacle(- (Len(s.obstacles) + 1), actualX, actualY)
        newObstaclesArray ==
            Append(s.obstacles,
                   [newObstacle EXCEPT !.blocks = renderBlocksFromShape(newObstacle)])
    IN  [INITIAL_STATE EXCEPT
            !.stats = [s.stats EXCEPT !.level = level + 1],
            !.fixedShapes = newObstaclesArray,
            !.obstacles = newObstaclesArray]

\* NextLevelAction that starts the level with the score of INITIAL_STATE
NextLevelResetsScore(randomPair, s) ==
    IF s.levelUp
    THEN [addObstacle(randomPair, s) EXCEPT !.stats.score = INITIAL_STATE.stats.score]
    ELSE s

\* NextLevelAction that places the obstacle and stays on the level
NextLevelSameLevel(randomPair, s) ==
    IF s.levelUp
    THEN [addObstacle(randomPair, s) EXCEPT !.stats.level = s.stats.level]
    ELSE s

NextLevelAction(randomPair, s) ==
    IF s.levelUp THEN addObstacle(randomPair, s) ELSE s

\* the state the fold of TickAction hands to ScoreAction
tickBeforeScore(s) ==
    MoveAction([deltaX |-> 0, deltaY |-> s.dropRate], CheckLevelUpAction(s))

TickActionThrows(s) ==
    /\ ~ (s.gameEnd \/ s.levelUp)
    /\ ScoreActionThrows(tickBeforeScore(s))

\* TickAction without the test of gameEnd and levelUp
TickActionUnguarded(s) == EndGameAction(ScoreAction(tickBeforeScore(s)))

\* TickAction that looks at the score after the row clear
TickActionChecksLevelLast(s) ==
    IF s.gameEnd \/ s.levelUp THEN s
    ELSE CheckLevelUpAction(EndGameAction(ScoreAction(
             MoveAction([deltaX |-> 0, deltaY |-> s.dropRate], s))))

TickAction(s) ==
    IF s.gameEnd \/ s.levelUp THEN s
    ELSE EndGameAction(ScoreAction(tickBeforeScore(s)))

GameCycleActionThrows(randomPair, s) ==
    /\ ~ s.levelUp
    /\ ~ s.gameEnd
    /\ AddShapeActionThrows(randomPair, s)

\* GameCycleAction that looks at gameEnd before levelUp
GameCycleEndFirst(randomPair, s) ==
    IF s.gameEnd THEN RestartGameAction(s)
    ELSE IF s.levelUp THEN NextLevelAction(randomPair, s)
    ELSE AddShapeAction(randomPair, s)

GameCycleAction(randomPair, s) ==
    IF s.levelUp THEN NextLevelAction(randomPair, s)
    ELSE IF s.gameEnd THEN RestartGameAction(s)
    ELSE AddShapeAction(randomPair, s)

----------------------------------------------------------------------------
(* observables.ts and main.ts: the action stream and its fold *)

\* interval(TICK_RATE_MS * 30): a game cycle every 30 ticks
TicksPerCycle == 30

tick == [op |-> "Tick"]
left == [op |-> "Move", movement |-> [deltaX |-> - BlockWIDTH, deltaY |-> 0]]
right == [op |-> "Move", movement |-> [deltaX |-> BlockWIDTH, deltaY |-> 0]]
down == [op |-> "Move", movement |-> [deltaX |-> 0, deltaY |-> BlockHEIGHT]]
rotate == [op |-> "Rotate"]
gameCycle(hash1, hash2) ==
    [op |-> "GameCycle", randomPair |-> <<scale(hash1), scale(hash2)>>]

\* action.apply(s) throws
applyThrows(s, action) ==
    CASE action.op = "Tick" -> TickActionThrows(s)
      [] action.op = "GameCycle" -> GameCycleActionThrows(action.randomPair, s)
      [] OTHER -> FALSE

\* action.apply(s)
reduceState(s, action) ==
    CASE action.op = "Tick" -> TickAction(s)
      [] action.op = "Move" -> MoveAction(action.movement, s)
      [] action.op = "Rotate" -> RotateAction(s)
      [] action.op = "GameCycle" -> GameCycleAction(action.randomPair, s)

----------------------------------------------------------------------------
(* Recorded streams of actions.  main.ts folds the merged stream from      *)
(* INITIAL_STATE; the streams below are prefixes of such a stream, each    *)
(* continuing the one named in Parent.  A round is one game cycle event,   *)
(* the key presses that follow it and the ticks up to the next one.        *)

\* hashes that createShape scales to the type and the angle of these
\* indices: the middle of the interval of each index
pairFor(typeIndex, angleIndex) ==
    << (2 * typeIndex + 1) * (mMinus1 \div (2 * Len(ALL_SHAPE_TYPES))),
       (2 * angleIndex + 1) * (mMinus1 \div (2 * Len(ALL_SHAPE_ANGLES))) >>

keys(n, action) == [i \in 1..n |-> action]

round(pair, keyActions, ticks) ==
    <<gameCycle(pair[1], pair[2])>> \o keyActions \o keys(ticks, tick)

BoardFiveShapes ==
    << round(pairFor(0, 0), keys(3, left), TicksPerCycle),
       round(pairFor(0, 0), keys(1, left), TicksPerCycle),
       round(pairFor(0, 0), keys(1, right), TicksPerCycle),
       round(pairFor(5, 0), keys(3, right), TicksPerCycle),
       round(pairFor(5, 0), keys(4, right), TicksPerCycle) >>

ScenarioClearOne ==
    << round(pairFor(0, 0), keys(5, left), 13) >>

BoardScore1 ==
    << round(pairFor(0, 0), keys(5, left), TicksPerCycle) >>

BoardScore1Filled ==
    << round(pairFor(0, 0), keys(3, left), TicksPerCycle),
       round(pairFor(0, 0), keys(1, left), TicksPerCycle),
       round(pairFor(0, 0), keys(1, right), TicksPerCycle) >>

ScenarioClearTwo ==
    << round(pairFor(5, 0), keys(3, right), 14) >>

BoardOverhang ==
    << round(pairFor(0, 0), keys(3, left), TicksPerCycle),
       round(pairFor(0, 0), keys(1, left), TicksPerCycle),
       round(pairFor(5, 0), keys(1, right), TicksPerCycle),
       round(pairFor(5, 1), keys(5, left), TicksPerCycle),
       round(pairFor(0, 0), keys(3, left), TicksPerCycle),
       round(pairFor(0, 0), keys(3, right) \o keys(16, down), 0) >>

ScenarioOverhang ==
    << round(pairFor(0, 0), keys(11, down), 0) >>

ScenarioGameOver1 ==
    << round(pairFor(0, 0), <<>>, TicksPerCycle),
       round(pairFor(0, 0), <<>>, TicksPerCycle),
       round(pairFor(0, 0), <<>>, TicksPerCycle),
       round(pairFor(0, 0), <<>>, TicksPerCycle),
       round(pairFor(0, 0), <<>>, TicksPerCycle),
       round(pairFor(0, 0), <<>>, TicksPerCycle),
       round(pairFor(0, 0), <<>>, TicksPerCycle),
       round(pairFor(0, 0), <<>>, TicksPerCycle) >>

ScenarioGameOver2 ==
    << round(pairFor(0, 0), <<>>, TicksPerCycle),
       round(pairFor(0, 0), <<>>, TicksPerCycle),
       round(pairFor(0, 0), <<>>, TicksPerCycle),
       round(pairFor(0, 0), <<>>, TicksPerCycle),
       round(pairFor(0, 0), <<>>, TicksPerCycle),
       round(pairFor(0, 0), <<>>, TicksPerCycle),
       round(pairFor(0, 0), <<>>, TicksPerCycle),
       round(pairFor(0, 0), <<>>, TicksPerCycle),
       round(pairFor(0, 0), <<>>, TicksPerCycle),
       round(pairFor(0, 0), <<>>, TicksPerCycle),
       round(pairFor(0, 0), <<>>, TicksPerCycle) >>

BoardScore5 ==
    << round(pairFor(0, 0), keys(3, left), TicksPerCycle),
       round(pairFor(0, 0), keys(1, left), TicksPerCycle),
       round(pairFor(0, 0), keys(1, right), TicksPerCycle),
       round(pairFor(5, 0), keys(3, right), TicksPerCycle),
       round(pairFor(0, 0), keys(4, right), TicksPerCycle),
       round(pairFor(0, 0), keys(3, left), TicksPerCycle),
       round(pairFor(0, 0), keys(1, left), TicksPerCycle),
       round(pairFor(0, 0), keys(1, right), TicksPerCycle),
       round(pairFor(5, 0), keys(3, right), TicksPerCycle),
       round(pairFor(0, 0), keys(5, left), TicksPerCycle) >>

BoardScore9 ==
    << round(pairFor(0, 0), keys(3, left), TicksPerCycle),
       round(pairFor(0, 0), keys(1, left), TicksPerCycle),
       round(pairFor(0, 0), keys(1, right), TicksPerCycle),
       round(pairFor(5, 0), keys(3, right), TicksPerCycle),
       round(pairFor(0, 0), keys(4, right), TicksPerCycle),
       round(pairFor(0, 0), keys(3, left), TicksPerCycle),
       round(pairFor(0, 0), keys(1, left), TicksPerCycle),
       round(pairFor(0, 0), keys(1, right), TicksPerCycle),
       round(pairFor(5, 0), keys(3, right), TicksPerCycle),
       round(pairFor(0, 0), keys(5, left), TicksPerCycle) >>

ScenarioScore10 ==
    << round(pairFor(5, 1), keys(3, left), TicksPerCycle),
       round(pairFor(0, 0), <<>>, TicksPerCycle),
       round(pairFor(0, 0), keys(3, right), 15) >>

BoardScore9Filled ==
    << round(pairFor(0, 0), keys(3, left), TicksPerCycle),
       round(pairFor(0, 0), keys(1, left), TicksPerCycle),
       round(pairFor(0, 0), keys(1, right), TicksPerCycle) >>

ScenarioLevelUp ==
    << round(pairFor(0, 0), keys(3, right), 15) >>

ScenarioBothFlags ==
    << round(pairFor(0, 0), keys(3, left), TicksPerCycle),
       round(pairFor(0, 0), keys(1, left), TicksPerCycle),
       round(pairFor(5, 2), keys(1, right), TicksPerCycle),
       round(pairFor(5, 2), <<>>, TicksPerCycle),
       round(pairFor(5, 2), <<>>, TicksPerCycle),
       round(pairFor(5, 2), <<>>, TicksPerCycle),
       round(pairFor(0, 0), <<>>, TicksPerCycle),
       round(pairFor(0, 0), keys(3, right), 16) >>

BoardLevel2 ==
    << round(pairFor(0, 0), keys(3, right), TicksPerCycle),
       round(<<536870912, 2040109465>>, <<>>, TicksPerCycle) >>

ScenarioObstacleClear ==
    << round(pairFor(0, 0), keys(3, left), TicksPerCycle),
       round(pairFor(0, 0), keys(1, left), TicksPerCycle),
       round(pairFor(0, 0), keys(1, right), TicksPerCycle),
       round(pairFor(5, 0), keys(3, right), TicksPerCycle),
       round(pairFor(5, 0), keys(4, right), 14) >>

BoardLevel2Filled ==
    << round(pairFor(0, 0), keys(3, left), TicksPerCycle),
       round(pairFor(0, 0), keys(1, left), TicksPerCycle),
       round(pairFor(0, 0), keys(1, right), TicksPerCycle),
       round(pairFor(5, 0), keys(3, right), TicksPerCycle),
       round(pairFor(5, 0), keys(4, right), TicksPerCycle),
       round(pairFor(0, 0), keys(5, left), TicksPerCycle),
       round(pairFor(0, 0), keys(3, left), TicksPerCycle),
       round(pairFor(0, 0), keys(1, left), TicksPerCycle),
       round(pairFor(0, 0), keys(1, right), TicksPerCycle),
       round(pairFor(5, 0), keys(3, right), TicksPerCycle),
       round(pairFor(0, 0), keys(4, right), TicksPerCycle),
       round(pairFor(0, 0), keys(3, left), TicksPerCycle),
       round(pairFor(0, 0), keys(1, left), TicksPerCycle),
       round(pairFor(0, 0), keys(1, right), TicksPerCycle) >>

ScenarioLevelUp2 ==
    << round(pairFor(0, 0), keys(3, right), 16) >>

BoardLevel3 ==
    << round(pairFor(0, 0), keys(3, right), TicksPerCycle),
       round(<<536870912, 2040109465>>, <<>>, TicksPerCycle) >>

ScenarioDuplicateClear ==
    << round(pairFor(0, 0), keys(3, left), TicksPerCycle),
       round(pairFor(0, 0), keys(1, left), TicksPerCycle),
       round(pairFor(0, 0), keys(1, right), TicksPerCycle),
       round(pairFor(5, 0), keys(3, right), TicksPerCycle),
       round(pairFor(5, 0), keys(4, right), 15) >>

BoardTower ==
    << round(pairFor(0, 0), keys(3, left), TicksPerCycle),
       round(pairFor(0, 0), keys(4, right), TicksPerCycle),
       round(pairFor(0, 0), keys(4, right), TicksPerCycle),
       round(pairFor(0, 0), keys(4, right), TicksPerCycle),
       round(pairFor(0, 0), keys(4, right), TicksPerCycle),
       round(pairFor(0, 0), keys(4, right), TicksPerCycle),
       round(pairFor(0, 0), keys(4, right), TicksPerCycle),
       round(pairFor(0, 0), keys(4, right), TicksPerCycle),
       round(pairFor(0, 0), keys(4, right), TicksPerCycle),
       round(pairFor(5, 3), keys(4, right), TicksPerCycle) >>

ScenarioSpawnOverlap ==
    << round(pairFor(0, 0), keys(2, right), TicksPerCycle),
       round(pairFor(0, 0), <<>>, 0) >>

ScenarioGameOverAside ==
    << round(pairFor(5, 0), keys(2, right), TicksPerCycle),
       round(pairFor(0, 0), <<>>, 1) >>

ScenarioScore41 ==
    << round(pairFor(0, 0), keys(3, left), TicksPerCycle),
       round(pairFor(0, 0), keys(1, left), TicksPerCycle),
       round(pairFor(0, 0), keys(1, right), TicksPerCycle),
       round(pairFor(5, 0), keys(3, right), TicksPerCycle),
       round(pairFor(5, 0), keys(4, right), TicksPerCycle),
       round(pairFor(0, 0), keys(5, left), TicksPerCycle),
       round(pairFor(0, 0), keys(3, left), TicksPerCycle),
       round(pairFor(0, 0), keys(1, left), TicksPerCycle),
       round(pairFor(0, 0), keys(1, right), TicksPerCycle),
       round(pairFor(5, 0), keys(3, right), TicksPerCycle),
       round(pairFor(5, 0), keys(5, left), TicksPerCycle),
       round(pairFor(0, 0), keys(4, right), TicksPerCycle),
       round(pairFor(0, 0), keys(3, left), TicksPerCycle),
       round(pairFor(0, 0), keys(1, left), TicksPerCycle),
       round(pairFor(0, 0), keys(1, right), TicksPerCycle),
       round(pairFor(0, 0), keys(3, right), TicksPerCycle),
       round(<<536870912, 2040109465>>, <<>>, TicksPerCycle),
       round(pairFor(0, 0), keys(3, left), TicksPerCycle),
       round(pairFor(0, 0), keys(1, left), TicksPerCycle),
       round(pairFor(0, 0), keys(1, right), TicksPerCycle),
       round(pairFor(5, 0), keys(3, right), TicksPerCycle),
       round(pairFor(5, 0), keys(4, right), TicksPerCycle),
       round(pairFor(0, 0), keys(5, left), TicksPerCycle),
       round(pairFor(0, 0), keys(3, left), TicksPerCycle),
       round(pairFor(0, 0), keys(1, left), TicksPerCycle),
       round(pairFor(0, 0), keys(1, right), TicksPerCycle),
       round(pairFor(0, 0), keys(3, left), TicksPerCycle),
       round(pairFor(0, 0), keys(1, left), TicksPerCycle),
       round(pairFor(5, 0), keys(1, right), TicksPerCycle),
       round(pairFor(5, 0), keys(4, right), TicksPerCycle),
       round(pairFor(5, 0), keys(5, left), TicksPerCycle),
       round(pairFor(5, 0), keys(2, right), TicksPerCycle),
       round(pairFor(0, 0), keys(3, right), 16) >>

\* the streams by name; the empty one stands for the start of the program
Scripts ==
    [ Start |-> <<>>,
      BoardFiveShapes |-> BoardFiveShapes,
      ScenarioClearOne |-> ScenarioClearOne,
      BoardScore1 |-> BoardScore1,
      BoardScore1Filled |-> BoardScore1Filled,
      ScenarioClearTwo |-> ScenarioClearTwo,
      BoardOverhang |-> BoardOverhang,
      ScenarioOverhang |-> ScenarioOverhang,
      ScenarioGameOver1 |-> ScenarioGameOver1,
      ScenarioGameOver2 |-> ScenarioGameOver2,
      BoardScore5 |-> BoardScore5,
      BoardScore9 |-> BoardScore9,
      ScenarioScore10 |-> ScenarioScore10,
      BoardScore9Filled |-> BoardScore9Filled,
      ScenarioLevelUp |-> ScenarioLevelUp,
      ScenarioBothFlags |-> ScenarioBothFlags,
      BoardLevel2 |-> BoardLevel2,
      ScenarioObstacleClear |-> ScenarioObstacleClear,
      BoardLevel2Filled |-> BoardLevel2Filled,
      ScenarioLevelUp2 |-> ScenarioLevelUp2,
      BoardLevel3 |-> BoardLevel3,
      ScenarioDuplicateClear |-> ScenarioDuplicateClear,
      BoardTower |-> BoardTower,
      ScenarioSpawnOverlap |-> ScenarioSpawnOverlap,
      ScenarioGameOverAside |-> ScenarioGameOverAside,
      ScenarioScore41 |-> ScenarioScore41 ]

\* the stream each stream continues
Parent ==
    [ Start |-> "Start",
      BoardFiveShapes |-> "Start",
      ScenarioClearOne |-> "BoardFiveShapes",
      BoardScore1 |-> "BoardFiveShapes",
      BoardScore1Filled |-> "BoardScore1",
      ScenarioClearTwo |-> "BoardScore1Filled",
      BoardOverhang |-> "BoardScore1",
      ScenarioOverhang |-> "BoardOverhang",
      ScenarioGameOver1 |-> "BoardScore1",
      ScenarioGameOver2 |-> "ScenarioGameOver1",
      BoardScore5 |-> "BoardScore1",
      BoardScore9 |-> "BoardScore5",
      ScenarioScore10 |-> "BoardScore9",
      BoardScore9Filled |-> "BoardScore9",
      ScenarioLevelUp |-> "BoardScore9Filled",
      ScenarioBothFlags |-> "BoardScore9",
      BoardLevel2 |-> "BoardScore9Filled",
      ScenarioObstacleClear |-> "BoardLevel2",
      BoardLevel2Filled |-> "BoardLevel2",
      ScenarioLevelUp2 |-> "BoardLevel2Filled",
      BoardLevel3 |-> "BoardLevel2Filled",
      ScenarioDuplicateClear |-> "BoardLevel3",
      BoardTower |-> "Start",
      ScenarioSpawnOverlap |-> "BoardTower",
      ScenarioGameOverAside |-> "BoardTower",
      ScenarioScore41 |-> "BoardLevel2" ]

\* the streams after which every action is explored
Scenarios ==
    { "Start",
      "ScenarioClearOne",
      "ScenarioClearTwo",
      "ScenarioOverhang",
      "ScenarioGameOver1",
      "ScenarioGameOver2",
      "ScenarioScore10",
      "ScenarioLevelUp",
      "ScenarioBothFlags",
      "ScenarioObstacleClear",
      "ScenarioLevelUp2",
      "ScenarioDuplicateClear",
      "ScenarioSpawnOverlap",
      "ScenarioGameOverAside",
      "ScenarioScore41" }

----------------------------------------------------------------------------
(* The state machine: scan(reduceState, INITIAL_STATE) over the stream.    *)
(* The stream is one of the recorded streams followed by at most MaxSteps  *)
(* actions of any kind in any order: the timers and the keyboard of        *)
(* observables.ts are merged without any ordering between them.  The       *)
(* pairs of gameCycle$ are inputs: rng$ iterates RNG.hash from two seeds,  *)
(* and the reducer takes whatever pair the event carries.                  *)

\* the number of actions explored after a recorded stream
MaxSteps == 3

\* the largest number of quarter turns asked of rotateMatrixNTimes
MaxTimes == 8

\* hashes of the generator's output domain 0 .. m - 1 that the model feeds
\* to GameCycleAction: both ends of the domain and two values inside it
RandomPairs ==
    { <<0, 0>>,
      <<536870912, 2040109465>>,
      <<mMinus1, 0>>,
      <<0, mMinus1>> }

\* a place in the recorded streams: the stream, the round, the action
free == [script |-> "none", round |-> 0, pos |-> 0]

atEnd(place) ==
    IF place.script = "none" THEN FALSE
    ELSE IF place.round = 0 THEN Scripts[place.script] = <<>>
    ELSE /\ place.round = Len(Scripts[place.script])
         /\ place.pos = Len(Scripts[place.script][place.round])

\* the places that follow a place: the next action of its stream, or the
\* first action of a stream that continues it
following(place) ==
    IF place.script = "none" THEN {}
    ELSE IF atEnd(place)
    THEN { [script |-> child, round |-> 1, pos |-> 1] :
              child \in { name \in DOMAIN Scripts :
                              Parent[name] = place.script /\ name # place.script } }
    ELSE IF place.round > 0 /\ place.pos < Len(Scripts[place.script][place.round])
    THEN { [place EXCEPT !.pos = place.pos + 1] }
    ELSE { [place EXCEPT !.round = place.round + 1, !.pos = 1] }

actionAt(place) == Scripts[place.script][place.round][place.pos]

\* the game cycle events the stream can deliver next
gameCycles(place) ==
    { gameCycle(pair[1], pair[2]) : pair \in RandomPairs }
        \cup { actionAt(next) : next \in { p \in following(place) :
                                               actionAt(p).op = "GameCycle" } }

Init ==
    /\ state = INITIAL_STATE
    /\ halted = FALSE
    /\ last = [op |-> "Init"]
    /\ replay = [script |-> "Start", round |-> 0, pos |-> 0]
    /\ steps = 0

\* one action of the stream goes through scan's accumulator; a throw
\* errors the stream, which then delivers nothing more
Deliver(action) ==
    /\ \/ \E next \in following(replay) :
              /\ actionAt(next) = action
              /\ replay' = next
              /\ steps' = steps
       \/ /\ replay = free \/ (atEnd(replay) /\ replay.script \in Scenarios)
          /\ steps < MaxSteps
          /\ replay' = free
          /\ steps' = steps + 1
    /\ IF applyThrows(state, action)
       THEN /\ halted' = TRUE
            /\ state' = state
       ELSE /\ halted' = FALSE
            /\ state' = reduceState(state, action)
    /\ last' = action

Tick ==
    /\ ~ halted
    /\ Deliver(tick)

KeyA ==
    /\ ~ halted
    /\ Deliver(left)

KeyD ==
    /\ ~ halted
    /\ Deliver(right)

KeyS ==
    /\ ~ halted
    /\ Deliver(down)

Space ==
    /\ ~ halted
    /\ Deliver(rotate)

GameCycle ==
    /\ ~ halted
    /\ \E action \in gameCycles(replay) : Deliver(action)

Next ==
    \/ Tick
    \/ KeyA
    \/ KeyD
    \/ KeyS
    \/ Space
    \/ GameCycle

Spec == Init /\ [][Next]_vars

----------------------------------------------------------------------------
(* The vocabulary of the properties *)

\* the movements MoveAction is built with: the three keys of observables.ts
\* and the drop of TickAction
Movements(s) ==
    { left.movement, right.movement, down.movement,
      [deltaX |-> 0, deltaY |-> s.dropRate] }

\* the candidates MoveAction.apply and RotateAction.apply hand to updateShape
Candidates(s) ==
    IF s.currentShape = Null THEN {}
    ELSE { moveCandidate(movement, s.currentShape) : movement \in Movements(s) }
             \cup { rotateCandidate(s.currentShape) }

\* the (x, y) of the blocks of a list
positions(blocks) == { <<blocks[i].x, blocks[i].y>> : i \in 1..Len(blocks) }

\* the negation of insideGrid in updateShape
outOfCanvas(blocks) ==
    \E p \in positions(blocks) :
        p[1] < 0 \/ p[1] >= CANVAS_WIDTH \/ p[2] >= CANVAS_HEIGHT

\* the negation of noOverlapBlocks in updateShape
onFixedBlock(s, blocks) ==
    positions(blocks) \cap positions(allBlocksOf(s)) # {}

invalidCandidate(s, candidate) ==
    LET blocks == renderBlocksFromShape(candidate)
    IN  outOfCanvas(blocks) \/ onFixedBlock(s, blocks)

\* the y of the rows of the grid whose GRID_WIDTH cells all hold a fixed block
rowsFull(s) ==
    LET fixed == positions(allBlocksOf(s))
    IN  { y \in { row * BlockHEIGHT : row \in 0..(GRID_HEIGHT - 1) } :
            \A column \in 0..(GRID_WIDTH - 1) : <<column * BlockWIDTH, y>> \in fixed }

\* TickAction reaches ScoreAction in s, and ScoreAction returns
scores(s) ==
    /\ ~ (s.gameEnd \/ s.levelUp)
    /\ ~ ScoreActionThrows(tickBeforeScore(s))

\* the blocks of a list that are on no row of `rows`, each moved down by one
\* block height for every row of `rows` below it
survivors(blocks, rows) ==
    LET kept == SelectSeq(blocks, LAMBDA b : b.y \notin rows)
    IN  [i \in 1..Len(kept) |->
            [kept[i] EXCEPT !.y = kept[i].y + BlockHEIGHT
                                    * Cardinality({ y \in rows : y > kept[i].y })]]

\* the hashes of RandomPairs as the pairs rng$ emits
randomPairs == { <<scale(pair[1]), scale(pair[2])>> : pair \in RandomPairs }

----------------------------------------------------------------------------
(* C1 *)

\* C1: for every reachable state and every candidate a Move or a Rotate
\* builds in it, the shape updateShape returns, the accepted candidate or
\* the previous currentShape, has no block with x < 0, x >= 200 or y >= 400
\* and no block on a block of fixedShapes.
C1_UpdateShapeReturnsLegalShape ==
    \A candidate \in Candidates(state) :
        LET returned == updateShape(state, candidate)
        IN  returned # Null =>
                /\ ~ outOfCanvas(returned.blocks)
                /\ ~ onFixedBlock(state, returned.blocks)

----------------------------------------------------------------------------
(* C2 *)

\* C2: when the candidate of a Move or a Rotate has a block outside the
\* canvas or on a fixed block, the action returns its input state, equal in
\* every field, and does not throw.
C2_RejectedCandidateReturnsInput ==
    /\ \A candidate \in Candidates(state) :
            invalidCandidate(state, candidate) =>
                updateStateWithNewShape(state, candidate) = state
    /\ \A action \in {left, right, down, rotate} :
            /\ ~ applyThrows(state, action)
            /\ (/\ state.currentShape # Null
                /\ invalidCandidate(state,
                        IF action.op = "Move"
                        THEN moveCandidate(action.movement, state.currentShape)
                        ELSE rotateCandidate(state.currentShape)))
                    => reduceState(state, action) = state

\* a key has just been handled and its candidate is invalid in the state
C2_Witness ==
    /\ last.op \in {"Move", "Rotate"}
    /\ ~ halted
    /\ state.currentShape # Null
    /\ state.currentShape.blocks # <<>>
    /\ invalidCandidate(state,
            IF last.op = "Move" THEN moveCandidate(last.movement, state.currentShape)
            ELSE rotateCandidate(state.currentShape))
    /\ reduceState(state, last) = state

----------------------------------------------------------------------------
(* C3 *)

\* C3: ScoreAction on a state with full rows removes exactly the GRID_WIDTH
\* blocks of each full row, moves every other block down by one block
\* height for each cleared row below it, and leaves the blocks under the
\* cleared rows where they were.
C3_ScoreRemovesTheTenBlocksOfARow ==
    scores(state) =>
        LET s == tickBeforeScore(state)
            t == ScoreAction(s)
            rows == rowsFull(s)
        IN  /\ Len(t.fixedShapes) = Len(s.fixedShapes)
            /\ \A i \in 1..Len(s.fixedShapes) :
                    t.fixedShapes[i].blocks = survivors(s.fixedShapes[i].blocks, rows)
            /\ Len(allBlocksOf(s)) - Len(allBlocksOf(t))
                    = GRID_WIDTH * Cardinality(rows)

----------------------------------------------------------------------------
(* C4 *)

\* C4: ScoreAction adds (number of full rows) * level to the score and
\* leaves level and highScore; with no full row the score and the blocks of
\* fixedShapes stay as they are.
C4_ScoreAddsRowsTimesLevel ==
    scores(state) =>
        LET s == tickBeforeScore(state)
            t == ScoreAction(s)
            cleared == Cardinality(rowsFull(s))
        IN  /\ t.stats.score = s.stats.score + cleared * s.stats.level
            /\ t.stats.level = s.stats.level
            /\ t.stats.highScore = s.stats.highScore
            /\ cleared = 0 =>
                    /\ t.stats.score = s.stats.score
                    /\ t.fixedShapes = s.fixedShapes

\* a tick is about to clear a row above level 1
C4_Witness ==
    /\ scores(state)
    /\ rowsFull(tickBeforeScore(state)) # {}
    /\ state.stats.level > 1

----------------------------------------------------------------------------
(* C5 *)

\* C5: in every reachable state the blocks of currentShape and of every
\* shape of fixedShapes are renderBlocksFromShape of the shape itself.
C5_BlocksAreTheRasterization ==
    /\ state.currentShape # Null =>
            state.currentShape.blocks = renderBlocksFromShape(state.currentShape)
    /\ \A i \in 1..Len(state.fixedShapes) :
            state.fixedShapes[i].blocks = renderBlocksFromShape(state.fixedShapes[i])

----------------------------------------------------------------------------
(* C6 *)

\* C6: in every reachable state no two blocks of fixedShapes have the same
\* (x, y).
C6_NoTwoFixedBlocksCoincide ==
    Cardinality(positions(allBlocksOf(state))) = Len(allBlocksOf(state))

----------------------------------------------------------------------------
(* C7 *)

\* C7: in every reachable state every shape of obstacles is, as a value, a
\* shape of fixedShapes.
C7_ObstaclesAreFixedShapes ==
    \A i \in 1..Len(state.obstacles) :
        \E j \in 1..Len(state.fixedShapes) :
            state.fixedShapes[j] = state.obstacles[i]

----------------------------------------------------------------------------
(* C8 *)

\* C8: a GameCycle event applies NextLevel when levelUp is set, gameEnd set
\* or not; RestartGame when only gameEnd is set; AddShape when neither is.
C8_GameCycleDispatch ==
    \A pair \in randomPairs :
        LET action == [op |-> "GameCycle", randomPair |-> pair]
        IN  ~ applyThrows(state, action) =>
                reduceState(state, action) =
                    CASE state.levelUp -> NextLevelAction(pair, state)
                      [] ~ state.levelUp /\ state.gameEnd -> RestartGameAction(state)
                      [] OTHER -> AddShapeAction(pair, state)

\* a tick has left both flags set: the next game cycle has to choose
C8_Witness ==
    /\ last.op = "Tick"
    /\ state.levelUp
    /\ state.gameEnd

----------------------------------------------------------------------------
(* C9 *)

\* C9: a GameCycle event on a state with gameEnd set and levelUp not set
\* yields INITIAL_STATE with score 0, level 1 and the larger of the previous
\* highScore and score as highScore; RestartGame on a state with gameEnd not
\* set returns the state.
C9_RestartResetsTheGame ==
    /\ (state.gameEnd /\ ~ state.levelUp) =>
            \A pair \in randomPairs :
                LET t == reduceState(state, [op |-> "GameCycle", randomPair |-> pair])
                    best == IF state.stats.highScore >= state.stats.score
                            THEN state.stats.highScore ELSE state.stats.score
                IN  /\ t = [INITIAL_STATE EXCEPT
                                !.stats = [score |-> 0, level |-> 1, highScore |-> best]]
                    /\ t.currentShape = Null
                    /\ t.fixedShapes = <<>>
                    /\ t.obstacles = <<>>
                    /\ ~ t.gameEnd
                    /\ ~ t.levelUp
    /\ ~ state.gameEnd => RestartGameAction(state) = state

\* the game has ended with a score above the high score
C9_Witness ==
    /\ state.gameEnd
    /\ ~ state.levelUp
    /\ state.stats.score > state.stats.highScore

----------------------------------------------------------------------------
(* C10 *)

----------------------------------------------------------------------------
(* C11 *)

\* C11: a Tick on a state with gameEnd or levelUp set returns the state,
\* equal in every field.
C11_TickIsIdleWhenEndedOrLevelUp ==
    (state.gameEnd \/ state.levelUp) =>
        /\ ~ applyThrows(state, tick)
        /\ reduceState(state, tick) = state

\* levelUp is set while a shape is falling: the fold of a Tick would move it
C11_Witness ==
    /\ last.op = "Tick"
    /\ state.levelUp
    /\ state.currentShape # Null
    /\ state.currentShape.blocks # <<>>
    /\ ~ invalidCandidate(state,
            moveCandidate([deltaX |-> 0, deltaY |-> state.dropRate],
                          state.currentShape))

----------------------------------------------------------------------------
(* C12 *)

\* C12: a Move and a Rotate on a state with no currentShape return the
\* state, equal in every field.
C12_NoShapeNoMove ==
    state.currentShape = Null =>
        /\ \A action \in {left, right, down, rotate} :
                /\ ~ applyThrows(state, action)
                /\ reduceState(state, action) = state
        /\ \A movement \in Movements(state) : MoveAction(movement, state) = state
        /\ RotateAction(state) = state

\* a key has been handled with shapes fixed and none falling
C12_Witness ==
    /\ last.op \in {"Move", "Rotate"}
    /\ state.currentShape = Null
    /\ state.fixedShapes # <<>>
    /\ ~ state.gameEnd

----------------------------------------------------------------------------
(* C13 *)

\* the state the fold of TickAction hands to EndGameAction
tickBeforeEndGame(s) == ScoreAction(tickBeforeScore(s))

\* C13: EndGame, which TickAction applies last, sets gameEnd to TRUE when
\* every block of currentShape has its top edge above row 0 (y < 0) and to
\* FALSE otherwise, changing nothing else; with no currentShape it returns
\* the state.
C13_EndGameWhenNoBlockIsOnTheCanvas ==
    scores(state) =>
        LET s == tickBeforeEndGame(state)
            t == EndGameAction(s)
        IN  /\ reduceState(state, tick) = t
            /\ IF s.currentShape = Null THEN t = s
               ELSE t = [s EXCEPT !.gameEnd =
                            \A i \in 1..Len(s.currentShape.blocks) :
                                s.currentShape.blocks[i].y < 0]

\* a tick has ended the game: the shape spawned on a blocked position
C13_Witness ==
    /\ last.op = "Tick"
    /\ state.gameEnd
    /\ state.currentShape # Null
    /\ invalidCandidate(state,
            moveCandidate([deltaX |-> 0, deltaY |-> state.dropRate],
                          state.currentShape))


\* AddShapeAction has just promoted nextShape: the shape sits at the spawn
\* coordinate, not yet rasterized, and its blocks there are on fixed blocks
spawnOnFixedBlocks(s) ==
    /\ s.currentShape # Null
    /\ s.currentShape.blocks = <<>>
    /\ s.currentShape.x = SPAWN_CANVAS_X
    /\ s.currentShape.y = SPAWN_CANVAS_Y
    /\ onFixedBlock(s, renderBlocksFromShape(s.currentShape))

\* C14: when a game cycle has just promoted nextShape to currentShape and the
\* blocks of that shape at the spawn coordinate (60, 0) coincide with fixed
\* blocks, the tick that follows ends the game.
C14_BlockedSpawnEndsTheGame ==
    (last.op = "GameCycle" /\ spawnOnFixedBlocks(state)) =>
        /\ ~ applyThrows(state, tick)
        /\ reduceState(state, tick).gameEnd


\* C15: NextLevelAction on a state with levelUp adds 1 to the level, keeps
\* score and highScore, and gives currentShape, nextShape, gameEnd, levelUp
\* and dropRate their values of INITIAL_STATE; without levelUp it returns the
\* state.
C15_NextLevelKeepsScoreAndResetsTheRest ==
    \A pair \in RandomPairs :
        LET t == NextLevelAction(<<scale(pair[1]), scale(pair[2])>>, state)
        IN  IF state.levelUp
            THEN /\ ~ applyThrows(state, gameCycle(pair[1], pair[2]))
                 /\ reduceState(state, gameCycle(pair[1], pair[2])) = t
                 /\ t.stats = [state.stats EXCEPT !.level = state.stats.level + 1]
                 /\ t.currentShape = INITIAL_STATE.currentShape
                 /\ t.currentShape = Null
                 /\ t.nextShape = INITIAL_STATE.nextShape
                 /\ t.gameEnd = INITIAL_STATE.gameEnd
                 /\ t.levelUp = INITIAL_STATE.levelUp
                 /\ t.dropRate = INITIAL_STATE.dropRate
            ELSE t = state

\* a level is complete with a shape in play, and the game cycle arrives
C15_Witness ==
    /\ state.levelUp
    /\ state.stats.score > 0
    /\ state.stats.level > 1
    /\ state.currentShape # Null
    /\ state.fixedShapes # <<>>


\* the obstacles of t that the obstacles of s do not have: those NextLevelAction
\* has placed
placed(s, t) == SubSeq(t.obstacles, Len(s.obstacles) + 1, Len(t.obstacles))

\* C16, as stated: a NextLevelAction that fires places as many new obstacles as
\* the current level, and each of them is in obstacles and in fixedShapes.
C16_NextLevelPlacesLevelObstacles ==
    state.levelUp =>
        \A pair \in RandomPairs :
            LET t == reduceState(state, gameCycle(pair[1], pair[2]))
            IN  /\ Len(placed(state, t)) = state.stats.level
                /\ \A i \in 1..Len(placed(state, t)) :
                       includes(t.fixedShapes, placed(state, t)[i])

\* C16, amended: a NextLevelAction that fires places exactly one new obstacle,
\* a 1x1 fixed shape with the id -(number of obstacles), after the obstacles
\* of the previous levels, which it keeps; obstacles and fixedShapes are both
\* that list, which has as many obstacles as the level that was completed.
C16_NextLevelPlacesOneObstacle ==
    state.levelUp =>
        \A pair \in RandomPairs :
            LET t == reduceState(state, gameCycle(pair[1], pair[2]))
                new == placed(state, t)
            IN  /\ Len(new) = 1
                /\ t.obstacles = state.obstacles \o new
                /\ t.fixedShapes = t.obstacles
                /\ Len(t.obstacles) = state.stats.level
                /\ new[1].id = - Len(t.obstacles)
                /\ new[1].type = ObstacleType.name
                /\ new[1].fix
                /\ Len(new[1].blocks) = 1
                /\ new[1].blocks[1].x = new[1].x
                /\ new[1].blocks[1].y = new[1].y

\* the second level is complete: the board has the obstacle of the first
C16_Witness ==
    /\ state.levelUp
    /\ state.stats.level = 2
    /\ Len(state.obstacles) = 1
    /\ Len(state.fixedShapes) > 1


\* C17: in every reachable state the number of shapes of obstacles is the
\* level minus one; a state at level 1 has no obstacle.
C17_ObstaclesAreLevelMinusOne ==
    /\ Len(state.obstacles) = state.stats.level - 1
    /\ state.stats.level = 1 => state.obstacles = <<>>

\* the third level is being played, with the obstacles of two level ups
C17_Witness ==
    /\ state.stats.level = 3
    /\ Len(state.obstacles) = 2
    /\ state.currentShape # Null
    /\ last.op = "Tick"


\* C18: every obstacle is on a cell of the lower half of the grid: the
\* scaleToRange of NextLevelAction gives a column in [0, 9] and a row in
\* [10, 19] for every pair that RNG.scale makes of hashes in [0, m - 1].
C18_ObstaclesAreInTheLowerHalf ==
    \A i \in 1..Len(state.obstacles) :
        /\ state.obstacles[i].x \div BlockWIDTH \in 0..(GRID_WIDTH - 1)
        /\ state.obstacles[i].y \div BlockHEIGHT \in (GRID_HEIGHT \div 2)..(GRID_HEIGHT - 1)


\* the shapes of a state: currentShape when there is one, nextShape and the
\* fixed shapes
shapesOf(s) ==
    (IF s.currentShape = Null THEN <<>> ELSE <<s.currentShape>>)
        \o <<s.nextShape>> \o s.fixedShapes

\* C19: in every reachable state the ids of currentShape, nextShape and the
\* fixed shapes are pairwise distinct: the id AddShapeAction gives the new
\* nextShape is the id of no other shape of the state.
C19_IdsArePairwiseDistinct ==
    LET shapes == shapesOf(state)
    IN  \A i, j \in 1..Len(shapes) : i # j => shapes[i].id # shapes[j].id


\* x and y are multiples of the side of a block
onTheGrid(p) == p.x % BlockWIDTH = 0 /\ p.y % BlockHEIGHT = 0

\* C20: in every reachable state currentShape, nextShape, every fixed shape
\* and every block of them are at multiples of the block size, and the angle
\* of every shape is one of 0, 90, 180 and 270, whatever pairs the game
\* cycles bring.
C20_ShapesAreOnTheGridAtCanonicalAngles ==
    LET shapes == shapesOf(state)
    IN  \A i \in 1..Len(shapes) :
            /\ onTheGrid(shapes[i])
            /\ \A j \in 1..Len(shapes[i].blocks) : onTheGrid(shapes[i].blocks[j])
            /\ includes(ALL_SHAPE_ANGLES, shapes[i].angle)


\* the matrices of the catalog and the one of the obstacle
Matrices ==
    { ALL_SHAPE_TYPES[i].matrix : i \in 1..Len(ALL_SHAPE_TYPES) } \cup { ObstacleType.matrix }

\* C21: four applications of rotateMatrix give back the matrix of every shape
\* type and of the obstacle, and rotateMatrixNTimes(n) is rotateMatrixNTimes
\* (n mod 4), that is n mod 4 applications of rotateMatrix (the matrices do
\* not depend on the state: they are looked at once, at the start); the
\* shapes of the state are drawn the same after any number of full turns.
C21_RotationHasOrderFour ==
    /\ last.op = "Init" =>
        \A matrix \in Matrices :
            /\ rotateMatrix(rotateMatrix(rotateMatrix(rotateMatrix(matrix)))) = matrix
            /\ \A n \in 0..MaxTimes :
                /\ rotateMatrixNTimes(n, matrix) = rotateMatrixNTimes(n % 4, matrix)
                /\ rotateMatrixNTimes(n, matrix) = rotateMatrixTimes(n % 4, matrix)
    /\ \A shape \in { state.nextShape } \cup
                    (IF state.currentShape = Null THEN {} ELSE { state.currentShape }) :
        includes(ALL_SHAPE_ANGLES, shape.angle) =>
            \A n \in { k \in 0..MaxTimes : k % 4 = (shape.angle \div 90) % 4 } :
                rotateMatrixNTimes(n, ShapeTypeOf(shape.type).matrix)
                    = rotateMatrixTimes((shape.angle \div 90) % 4, ShapeTypeOf(shape.type).matrix)

\* a shape in play is drawn after three quarter turns
C21_Witness ==
    /\ state.currentShape # Null
    /\ state.currentShape.angle = 270
    /\ state.currentShape.type \in {"L", "I"}
    /\ state.currentShape.blocks # <<>>


\* C22: a tick on a state with neither gameEnd nor levelUp is CheckLevelUp,
\* then the move by (0, dropRate), then Score, then EndGame: levelUp is told
\* from the score the state had before the tick, and the rows are cleared and
\* gameEnd is told with the shape as the move has left it.
C22_TickFoldsFourActionsInOrder ==
    scores(state) =>
        LET checked == CheckLevelUpAction(state)
            moved == MoveAction([deltaX |-> 0, deltaY |-> state.dropRate], checked)
            scored == ScoreAction(moved)
            t == reduceState(state, tick)
        IN  /\ t = EndGameAction(scored)
            /\ t.levelUp = (state.stats.score >= state.stats.level * 10)
            /\ t.currentShape = moved.currentShape

\* the tick has cleared a row and brought the score to the level's target:
\* levelUp is not set yet
C22_Witness ==
    /\ last.op = "Tick"
    /\ ~ state.levelUp
    /\ ~ state.gameEnd
    /\ state.stats.score >= state.stats.level * 10


\* a block of the list is one block height above one of the fixed positions,
\* or on the bottom row
restsOnSomething(fixed, blocks) ==
    \E p \in positions(blocks) :
        IF p[2] = CANVAS_HEIGHT - BlockHEIGHT THEN TRUE
        ELSE <<p[1], p[2] + BlockHEIGHT>> \in fixed

\* the state after an accepted candidate with these blocks: the shape joins
\* the fixed shapes when it rests on something, and stays in play otherwise
accepted(s, candidate, blocks, rests) ==
    IF rests
    THEN [s EXCEPT !.currentShape = Null,
                   !.fixedShapes = Append(s.fixedShapes,
                        [candidate EXCEPT !.blocks = blocks, !.fix = TRUE])]
    ELSE [s EXCEPT !.currentShape = [candidate EXCEPT !.blocks = blocks, !.fix = FALSE]]

\* C23, as stated: an accepted candidate of a Move or a Rotate that rests on a
\* fixed block or on the bottom row leaves currentShape null and the shape,
\* fix and freshly drawn, at the end of fixedShapes; one that rests on nothing
\* becomes currentShape, not fix, and fixedShapes stays.
C23_AcceptedCandidateSettlesOrStays ==
    LET fixed == positions(allBlocksOf(state))
    IN  \A candidate \in Candidates(state) :
            LET blocks == renderBlocksFromShape(candidate)
            IN  (positions(blocks) \cap fixed = {} /\ ~ outOfCanvas(blocks)) =>
                    updateStateWithNewShape(state, candidate)
                        = accepted(state, candidate, blocks, restsOnSomething(fixed, blocks))

\* C23, amended: the same in a state whose gameEnd is false; with gameEnd the
\* accepted candidate is dropped and the state returned as it is.
C23_AcceptedCandidateSettlesOrStaysUnlessEnded ==
    LET fixed == positions(allBlocksOf(state))
    IN  \A candidate \in Candidates(state) :
            LET blocks == renderBlocksFromShape(candidate)
            IN  (positions(blocks) \cap fixed = {} /\ ~ outOfCanvas(blocks)) =>
                    updateStateWithNewShape(state, candidate)
                        = IF state.gameEnd THEN state
                          ELSE accepted(state, candidate, blocks,
                                        restsOnSomething(fixed, blocks))

\* a key has just fixed a shape on a fixed block, above the bottom row
C23_Witness ==
    /\ last.op \in {"Move", "Rotate"}
    /\ state.currentShape = Null
    /\ ~ state.gameEnd
    /\ state.fixedShapes # <<>>
    /\ LET shape == state.fixedShapes[Len(state.fixedShapes)]
       IN  /\ shape.fix
           /\ shape.type # ObstacleType.name
           /\ \A i \in 1..Len(shape.blocks) : shape.blocks[i].y < CANVAS_HEIGHT - BlockHEIGHT


\* the x that rotateKickShape gives a shape: 0 when its leftmost block is
\* within a block width of the left edge, and, looked at after that, the x
\* that puts x + width on the right edge when its rightmost block is within a
\* block width of it
kickedX(shape) ==
    LET xs == { p[1] : p \in positions(shape.blocks) }
        afterLeft == IF \E x \in xs : x <= BlockWIDTH THEN 0 ELSE shape.x
    IN  IF \E x \in xs : x + BlockWIDTH >= CANVAS_WIDTH - BlockWIDTH
        THEN CANVAS_WIDTH - shape.width
        ELSE afterLeft

\* C24: the candidate of a Rotate is the current shape with the angle
\* (angle + 90) mod 360 and the x of the kicks, left then right, and it is
\* what updateStateWithNewShape validates; the candidate of a Move is the
\* shape moved by the movement, never kicked.
C24_RotateTurnsAndKicks ==
    state.currentShape # Null =>
        LET shape == state.currentShape
            candidate == rotateCandidate(shape)
        IN  /\ includes(ALL_SHAPE_ANGLES, candidate.angle)
            /\ candidate.angle = (shape.angle + 90) % 360
            /\ candidate = [shape EXCEPT !.angle = candidate.angle, !.x = kickedX(shape)]
            /\ RotateAction(state) = updateStateWithNewShape(state, candidate)
            /\ \A movement \in Movements(state) :
                /\ moveCandidate(movement, shape)
                    = [shape EXCEPT !.x = shape.x + movement.deltaX,
                                    !.y = shape.y + movement.deltaY]
                /\ MoveAction(movement, state)
                    = updateStateWithNewShape(state, moveCandidate(movement, shape))


\* every block of the list has 0 <= x < CANVAS_WIDTH
betweenTheWalls(blocks) ==
    \A p \in positions(blocks) : p[1] >= 0 /\ p[1] < CANVAS_WIDTH

\* the shapes of every type and angle drawn at every x that leaves their
\* blocks between the walls: the shapes a Move can have left in play
ShapesInPlay ==
    LET drawn(shape) == [shape EXCEPT !.blocks = renderBlocksFromShape(shape)]
        pair(t, a) == <<scale(pairFor(t, a)[1]), scale(pairFor(t, a)[2])>>
        all == { drawn([createShape(pair(t, a), 0) EXCEPT !.x = column * BlockWIDTH]) :
                    t \in 0..(Len(ALL_SHAPE_TYPES) - 1),
                    a \in 0..(Len(ALL_SHAPE_ANGLES) - 1),
                    column \in (-3)..(GRID_WIDTH - 1) }
    IN  { shape \in all : betweenTheWalls(shape.blocks) }

\* C25: the candidate of a Rotate, after the kicks, has every block between
\* the left and the right edge of the canvas, for the current shape of every
\* reachable state and for every type, angle and x a shape in play can have
\* (these do not depend on the state: they are looked at once, at the start).
C25_KicksKeepTheRotationBetweenTheWalls ==
    /\ last.op = "Init" =>
        \A shape \in ShapesInPlay :
            betweenTheWalls(renderBlocksFromShape(rotateCandidate(shape)))
    /\ state.currentShape # Null =>
        betweenTheWalls(renderBlocksFromShape(rotateCandidate(state.currentShape)))

\* a shape in play reaches over the left edge with its empty columns, and the
\* kick moves it
C25_Witness ==
    /\ state.currentShape # Null
    /\ state.currentShape.blocks # <<>>
    /\ state.currentShape.x < 0
    /\ rotateCandidate(state.currentShape).x = 0
    /\ ~ betweenTheWalls(renderBlocksFromShape(
            [state.currentShape EXCEPT !.angle = nextAngle(state.currentShape.angle)]))


\* C26: in a state with score >= level * 10 and gameEnd = false the Tick
\* returns a state with levelUp = true; in a state with levelUp = true the
\* Tick changes nothing and every GameCycle event returns a state whose
\* level is one higher, with the same score and highScore and
\* levelUp = false.
C26_ReachedScoreLevelsUp ==
    /\ (state.stats.score >= state.stats.level * 10 /\ ~ state.gameEnd) =>
        /\ ~ applyThrows(state, tick)
        /\ reduceState(state, tick).levelUp
    /\ state.levelUp =>
        /\ reduceState(state, tick) = state
        /\ \A action \in gameCycles(replay) :
            LET next == reduceState(state, action)
            IN  /\ ~ applyThrows(state, action)
                /\ next.stats.level = state.stats.level + 1
                /\ next.stats.score = state.stats.score
                /\ next.stats.highScore = state.stats.highScore
                /\ ~ next.levelUp


\* C27: in a state with gameEnd = true every GameCycle event returns a state
\* with gameEnd = false and levelUp = false, in which the Tick runs its four
\* actions again and a Move or a Rotate is no longer turned down for the
\* flag.
C27_GameCycleRecoversFromGameEnd ==
    state.gameEnd =>
        \A action \in gameCycles(replay) :
            LET next == reduceState(state, action)
            IN  /\ ~ applyThrows(state, action)
                /\ ~ next.gameEnd
                /\ ~ next.levelUp
                /\ ~ applyThrows(next, tick)
                /\ reduceState(next, tick) = TickActionUnguarded(next)


\* C28: in a state with gameEnd = true the Tick, the Move of every key and
\* the Rotate return the state itself, every field included, and every
\* GameCycle event returns another state.
C28_OnlyGameCycleActsAfterGameEnd ==
    state.gameEnd =>
        /\ reduceState(state, tick) = state
        /\ \A action \in {left, right, down, rotate} :
            reduceState(state, action) = state
        /\ \A movement \in Movements(state) : MoveAction(movement, state) = state
        /\ \A action \in gameCycles(replay) : reduceState(state, action) # state

\* a key was pressed after the end of the game while the current shape had
\* room to move
C28_Witness ==
    /\ state.gameEnd
    /\ last.op \in {"Move", "Rotate"}
    /\ state.currentShape # Null
    /\ \E movement \in Movements(state) :
        ~ invalidCandidate(state, moveCandidate(movement, state.currentShape))


\* C29: stats.highScore is the same after a Move, a Rotate and a Tick, and
\* after the ScoreAction inside the Tick, an AddShapeAction and a
\* NextLevelAction; after a RestartGameAction in a state with gameEnd = true
\* it is the larger of the highScore and the score before; no GameCycle
\* event makes it smaller, and one changes it only in a state with
\* gameEnd = true and levelUp = false.
C29_HighScoreNeverDecreases ==
    LET highScore == state.stats.highScore
        best == IF highScore > state.stats.score THEN highScore ELSE state.stats.score
        moved == tickBeforeScore(state)
        scored == ScoreAction(moved)
    IN  /\ \A action \in {left, right, down, rotate} :
            reduceState(state, action).stats.highScore = highScore
        /\ IF state.gameEnd \/ state.levelUp
           THEN reduceState(state, tick).stats.highScore = highScore
           ELSE ScoreActionThrows(moved)
                    \/ /\ scored.stats.highScore = highScore
                       /\ EndGameAction(scored).stats.highScore = highScore
        /\ RestartGameAction(state).stats.highScore
                = IF state.gameEnd THEN best ELSE highScore
        /\ \A action \in gameCycles(replay) :
            /\ AddShapeActionThrows(action.randomPair, state)
                \/ AddShapeAction(action.randomPair, state).stats.highScore = highScore
            /\ NextLevelAction(action.randomPair, state).stats.highScore = highScore
            /\ applyThrows(state, action)
                \/ LET next == reduceState(state, action).stats.highScore
                   IN  /\ next >= highScore
                       /\ next # highScore => (state.gameEnd /\ ~ state.levelUp)

\* a GameCycle event has restarted the game after a game that had scored
C29_Witness ==
    /\ last.op = "GameCycle"
    /\ state.stats.score = 0
    /\ state.stats.level = 1
    /\ state.stats.highScore > 0
    /\ state.fixedShapes = <<>>
    /\ replay.script = "none"


\* C30: in a state with gameEnd = false and levelUp = false, the state the
\* Tick returns has no row of the grid whose GRID_WIDTH cells all hold a
\* block of fixedShapes.
C30_NoFullRowAfterTick ==
    scores(state) => rowsFull(reduceState(state, tick)) = {}

\* a Tick has run its four actions on a board where a row clear has left
\* part of a shape, moved down
C30_Witness ==
    /\ last.op = "Tick"
    /\ ~ halted
    /\ ~ state.gameEnd
    /\ ~ state.levelUp
    /\ state.stats.score > 0
    /\ \E i \in 1..Len(state.fixedShapes) :
        LET shape == state.fixedShapes[i]
        IN  /\ shape.type # "Obstacle"
            /\ shape.blocks # <<>>
            /\ Len(shape.blocks) < Len(renderBlocksFromShape(shape))
            /\ \E j \in 1..Len(shape.blocks) :
                ~ includes(renderBlocksFromShape(shape), shape.blocks[j])

====
